---- MODULE Spec2Model ----
(***************************************************************************)
(* Model of the WealthAutomation affiliate offer library                   *)
(* (src/wealthautomation_patch/affiliate_offer_library.py) and of the      *)
(* WordPress and ConvertKit clients (jwt_wordpress_integration.py,         *)
(* convertkit_v4_integration.py).                                          *)
(*                                                                         *)
(* Python strings are sequences of one-character strings, so that lower(), *)
(* the `in` substring test, concatenation and replace() are computed and   *)
(* not assumed.  JSON values are records of one shape [t, n, s, l]: t is   *)
(* the Python type of the value, n its number, s its text and l its items. *)
(* An element of the catalog's "offers" list has the shape                 *)
(* [t, id, name, url, categories, keywords, priority, ctaTemplates]; for a *)
(* dict t = "dict" and each field is the JSON value stored under that key  *)
(* (Missing when the key is absent).                                       *)
(***************************************************************************)
EXTENDS Integers, Sequences, FiniteSets, TLC

VARIABLES offersFile, logDir, pc, offers, usageLog, call, ret, emitted,
          env, wp, ck, net, out, fallbackWrites

vars == <<offersFile, logDir, pc, offers, usageLog, call, ret, emitted,
          env, wp, ck, net, out, fallbackWrites>>

\* the state of the offer library and of its caller
libraryVars == <<offersFile, logDir, pc, offers, usageLog, call, ret, emitted>>

\* the state of the WordPress and ConvertKit clients: the environment
\* variables, the two client objects, the HTTP exchanges and the result of
\* the last call, and the fallback files written
clientVars == <<env, wp, ck, net, out, fallbackWrites>>

(***************************************************************************)
(* Bounds                                                                  *)
(***************************************************************************)
MaxOffers == 2      \* longest "offers" list in the catalog file
MaxUsage == 1       \* most records appended to the usage log in one run
MaxTied == 3        \* longest catalog of offers with tying scores
MaxWrites == 2      \* most fallback files a client writes in one run
MaxRender == 1      \* longest catalog of offers with unusual templates

(***************************************************************************)
(* Python strings                                                          *)
(***************************************************************************)
LowerChar(c) ==
    CASE c = "A" -> "a"
      [] c = "B" -> "b"
      [] c = "C" -> "c"
      [] c = "D" -> "d"
      [] c = "E" -> "e"
      [] c = "F" -> "f"
      [] c = "G" -> "g"
      [] c = "H" -> "h"
      [] c = "I" -> "i"
      [] c = "J" -> "j"
      [] c = "K" -> "k"
      [] c = "L" -> "l"
      [] c = "M" -> "m"
      [] c = "N" -> "n"
      [] c = "O" -> "o"
      [] c = "P" -> "p"
      [] c = "Q" -> "q"
      [] c = "R" -> "r"
      [] c = "S" -> "s"
      [] c = "T" -> "t"
      [] c = "U" -> "u"
      [] c = "V" -> "v"
      [] c = "W" -> "w"
      [] c = "X" -> "x"
      [] c = "Y" -> "y"
      [] c = "Z" -> "z"
      [] OTHER -> c

\* str.lower()
Lower(s) == [i \in 1..Len(s) |-> LowerChar(s[i])]

\* needle in hay  (the empty string is in every string)
Contains(hay, needle) ==
    \E i \in 0..(Len(hay) - Len(needle)) :
        SubSeq(hay, i + 1, i + Len(needle)) = needle

\* s[k:]
Drop(s, k) == SubSeq(s, k + 1, Len(s))

RECURSIVE Replace(_, _, _)
\* str.replace(old, new) for a non-empty old: leftmost, non-overlapping
Replace(s, old, new) ==
    IF Len(s) < Len(old) THEN s
    ELSE IF SubSeq(s, 1, Len(old)) = old
         THEN new \o Replace(Drop(s, Len(old)), old, new)
         ELSE <<s[1]>> \o Replace(Drop(s, 1), old, new)

(***************************************************************************)
(* JSON values as Python sees them after json.load                         *)
(***************************************************************************)
JStr(s) == [t |-> "str", n |-> 0, s |-> s, l |-> <<>>]
JInt(n) == [t |-> "int", n |-> n, s |-> <<>>, l |-> <<>>]
JBool(b) == [t |-> "bool", n |-> IF b THEN 1 ELSE 0, s |-> <<>>, l |-> <<>>]
JNull == [t |-> "NoneType", n |-> 0, s |-> <<>>, l |-> <<>>]
JList(l) == [t |-> "list", n |-> 0, s |-> <<>>, l |-> l]
Missing == [t |-> "missing", n |-> 0, s |-> <<>>, l |-> <<>>]

\* isinstance(v, str), isinstance(v, list)
IsStr(v) == v.t = "str"
IsList(v) == v.t = "list"
\* isinstance(v, (int, float)): bool is a subclass of int in Python, so
\* True and False pass the test and count as 1 and 0
IsNumber(v) == v.t \in {"int", "bool"}
\* isinstance(e, dict)
IsDict(e) == e.t = "dict"

\* d.get(key, default)
Get(v, default) == IF v.t = "missing" THEN default ELSE v

\* bool(v): the truth value Python gives a JSON value
Truthy(v) ==
    CASE v.t \in {"missing", "NoneType"} -> FALSE
      [] v.t \in {"int", "bool"} -> v.n # 0
      [] v.t = "str" -> Len(v.s) > 0
      [] v.t = "list" -> Len(v.l) > 0
      [] OTHER -> TRUE

Digit(n) == CASE n = 0 -> "0" [] n = 1 -> "1" [] n = 2 -> "2" [] n = 3 -> "3"
              [] n = 4 -> "4" [] n = 5 -> "5" [] n = 6 -> "6" [] n = 7 -> "7"
              [] n = 8 -> "8" [] OTHER -> "9"

RECURSIVE Digits(_)
Digits(n) == IF n < 10 THEN <<Digit(n)>> ELSE Digits(n \div 10) \o <<Digit(n % 10)>>

\* format(v) as an f-string does it, for the values an id can take
Format(v) ==
    CASE v.t = "str" -> v.s
      [] v.t = "int" -> IF v.n < 0 THEN <<"-">> \o Digits(0 - v.n) ELSE Digits(v.n)
      [] v.t = "bool" -> IF v.n = 1 THEN <<"T", "r", "u", "e">>
                                    ELSE <<"F", "a", "l", "s", "e">>
      [] v.t = "NoneType" -> <<"N", "o", "n", "e">>
      [] OTHER -> <<"[", "]">>

Offer(id, name, url, categories, keywords, priority, ctaTemplates) ==
    [t |-> "dict", id |-> id, name |-> name, url |-> url,
     categories |-> categories, keywords |-> keywords,
     priority |-> priority, ctaTemplates |-> ctaTemplates]

\* an element of the "offers" list that is not a dict
NonDict(t) ==
    [t |-> t, id |-> Missing, name |-> Missing, url |-> Missing,
     categories |-> Missing, keywords |-> Missing,
     priority |-> Missing, ctaTemplates |-> Missing]

(***************************************************************************)
(* Texts: the fixed strings of the code and the inputs of the model        *)
(***************************************************************************)
\* "utm_source={utm_source}&utm_medium={utm_medium}&utm_campaign="
UtmPrefix ==
    <<"u", "t", "m", "_", "s", "o", "u", "r", "c", "e", "=", "w", "e", "a",
      "l", "t", "h", "a", "u", "t", "o", "m", "a", "t", "i", "o", "n", "&",
      "u", "t", "m", "_", "m", "e", "d", "i", "u", "m", "=", "b", "l", "o",
      "g", "&", "u", "t", "m", "_", "c", "a", "m", "p", "a", "i", "g", "n",
      "=">>

\* the placeholder replaced in a template
UrlToken ==
    <<"{", "{", "u", "r", "l", "}", "}">>

\* the default campaign, the default url and the default name
sOfferDefault ==
    <<"o", "f", "f", "e", "r">>
sHash ==
    <<"#">>
sNA ==
    <<"N", "/", "A">>

\* the header line of the usage log
UsageHeader ==
    <<"T", "i", "m", "e", "s", "t", "a", "m", "p", ",", "O", "f", "f", "e",
      "r", "I", "D", ",", "O", "f", "f", "e", "r", "N", "a", "m", "e", ",",
      "C", "o", "n", "t", "e", "n", "t", "T", "y", "p", "e", ",", "C", "o",
      "n", "t", "e", "n", "t", "T", "i", "t", "l", "e", "\n">>

\* datetime.datetime.now().isoformat(): one fixed instant
sNow ==
    <<"2", "0", "2", "4", "-", "0", "1", "-", "0", "1", "T", "0", "0", ":",
      "0", "0", ":", "0", "0">>

\* offer texts
sConvertkit ==
    <<"c", "o", "n", "v", "e", "r", "t", "k", "i", "t">>
sEmailMarketing ==
    <<"E", "m", "a", "i", "l", " ", "M", "a", "r", "k", "e", "t", "i", "n",
      "g">>
sUrlEx ==
    <<"h", "t", "t", "p", "s", ":", "/", "/", "x", ".", "c", "o", "m", "/",
      "?", "a", "=", "1">>
sOffer1 ==
    <<"o", "f", "f", "e", "r", "1">>
sName1 ==
    <<"T", "h", "e", " ", "\"", "C", "K", "\"", " ", "T", "r", "i", "a",
      "l">>
tplA ==
    <<"<", "a", " ", "h", "r", "e", "f", "=", "\"", "{", "{", "u", "r",
      "l", "}", "}", "\"", ">", "G", "o", "<", "/", "a", ">">>
tplB ==
    <<"{", "{", "u", "r", "l", "}", "}", " ", "o", "r", " ", "{", "{", "u",
      "r", "l", "}", "}">>
sA ==
    <<"a">>
sB ==
    <<"b">>
sAB ==
    <<"a", "b">>
sC ==
    <<"c">>
sX ==
    <<"x">>
sUrlPlain ==
    <<"x", ".", "i", "o", "/", "p">>

\* a template whose text before the placeholder is the placeholder less its
\* last brace, a url that begins with a closing brace, and a url that is the
\* placeholder itself
tplC ==
    <<"{", "{", "u", "r", "l", "}", "{", "{", "u", "r", "l", "}", "}">>
sUrlBrace ==
    <<"}", "x">>
sUrlToken ==
    <<"{", "{", "u", "r", "l", "}", "}">>

\* content bodies and titles
exTitle ==
    <<"E", "m", "a", "i", "l", " ", "M", "a", "r", "k", "e", "t", "i", "n",
      "g", " ", "E", "s", "s", "e", "n", "t", "i", "a", "l", "s">>
exBody ==
    <<"T", "r", "y", " ", "C", "o", "n", "v", "e", "r", "t", "K", "i", "t">>
sUpperA ==
    <<"A">>
sBlog ==
    <<"b", "l", "o", "g">>
sTitleCsv ==
    <<"A", " ", "\"", "b", "\"", ",", " ", "c">>

(***************************************************************************)
(* The inputs of the model: elements a catalog file can hold               *)
(***************************************************************************)
\* a complete offer; the offer of the spec's scoring and tracked-URL examples
OfferEx ==
    Offer(JStr(sOffer1), JStr(sName1), JStr(sUrlEx),
          JList(<<JStr(sEmailMarketing)>>), JList(<<JStr(sConvertkit)>>),
          JInt(5), JList(<<JStr(tplA), JStr(tplB)>>))

\* the empty dict: every key is missing
OfferEmpty ==
    Offer(Missing, Missing, Missing, Missing, Missing, Missing, Missing)

\* wrong types: text priority, a number among the keywords, text categories,
\* a number as url, null id, no text among the templates
OfferA ==
    Offer(JNull, JInt(3), JInt(7), JStr(sAB),
          JList(<<JStr(sA), JStr(sB), JInt(7)>>),
          JStr(sX), JList(<<JInt(1)>>))

\* categories that are a number, templates that are a text, url without '?'
OfferB ==
    Offer(JInt(7), JStr(sB), JStr(sUrlPlain), JInt(5),
          JList(<<JStr(sA)>>), JInt(2), JStr(tplA))

\* null keywords, a number among the categories, an empty template list
OfferC ==
    Offer(JStr(sC), Missing, Missing, JList(<<JStr(sA), JInt(1)>>),
          JNull, JInt(3), JList(<<>>))

\* negative priority, a list among the categories, one text template among
\* non-texts
OfferD ==
    Offer(Missing, JStr(sX), JStr(sUrlPlain), JList(<<JList(<<>>)>>),
          JList(<<JStr(sB)>>), JInt(0 - 2), JList(<<JInt(1), JStr(tplB)>>))

\* no priority (counts as 1), one keyword and one category
OfferE ==
    Offer(JStr(sB), JStr(sA), JStr(sUrlPlain), JList(<<JStr(sB)>>),
          JList(<<JStr(sA)>>), Missing, JList(<<JStr(tplA)>>))

\* "This is not a dictionary and should be skipped"
NotAnOffer == NonDict("str")

\* Python's None where an offer is expected
NoneOffer == NonDict("NoneType")

Pool == {OfferEx, OfferEmpty, OfferA, OfferB, OfferC, OfferD, NotAnOffer}

\* offers whose scores tie on the content "ab": numeric, missing and text
\* priorities
TiePool == {OfferA, OfferB, OfferC, OfferE}

\* a url that begins with a closing brace, under the template tplC
OfferF ==
    Offer(JStr(sC), JStr(sC), JStr(sUrlBrace), JList(<<JStr(sA)>>),
          JList(<<JStr(sA)>>), JInt(1), JList(<<JStr(tplC)>>))

\* a url that is the placeholder
OfferG ==
    Offer(JStr(sC), JStr(sC), JStr(sUrlToken), JList(<<JStr(sA)>>),
          JList(<<JStr(sA)>>), JInt(1), JList(<<JStr(tplA)>>))

\* an empty template and a template without the placeholder
OfferH ==
    Offer(JStr(sC), JStr(sC), JStr(sUrlPlain), JList(<<JStr(sA)>>),
          JList(<<JStr(sA)>>), JInt(1), JList(<<JStr(<<>>), JStr(sA)>>))

\* offers that differ in their templates and in the braces of their urls
RenderPool == {OfferEx, OfferA, OfferD, OfferF, OfferG, OfferH}

SeqsUpTo(S, n) == UNION {[1..k -> S] : k \in 0..n}

\* The catalog file.  state: "missing" (no such file), "garbage" (not JSON),
\* "unreadable" (open fails otherwise), "json"; root: the Python type of the
\* root value; hasOffers: root is a dict with the key "offers"; offersT: the
\* type of data["offers"]; items: its elements when it is a list.
File(state, root, hasOffers, offersT, items) ==
    [state |-> state, root |-> root, hasOffers |-> hasOffers,
     offersT |-> offersT, items |-> items]

BadFiles ==
    {File(s, "NoneType", FALSE, "missing", <<>>) :
        s \in {"missing", "garbage", "unreadable"}}
    \cup {File("json", r, FALSE, "missing", <<>>) :
            r \in {"list", "str", "dict"}}
    \cup {File("json", "dict", TRUE, o, <<>>) :
            o \in {"str", "NoneType", "dict"}}

GoodFiles ==
    {File("json", "dict", TRUE, "list", items) :
        items \in SeqsUpTo(Pool, MaxOffers)}

TieFiles ==
    {File("json", "dict", TRUE, "list", items) :
        items \in SeqsUpTo(TiePool, MaxTied)}

RenderFiles ==
    {File("json", "dict", TRUE, "list", items) :
        items \in SeqsUpTo(RenderPool, MaxRender)}

(***************************************************************************)
(* Logging                                                                 *)
(***************************************************************************)
\* _log(message, level): without the log directory the line is printed;
\* with it the line is appended to the log file, and printed too when the
\* level is ERROR or WARNING.  msg names the message, n its number.
Log(dir, level, msg, n) ==
    [level |-> level, msg |-> msg, n |-> n, toFile |-> dir,
     toConsole |-> (~dir) \/ level \in {"ERROR", "WARNING"}]

\* print(...) of a warning that does not go through _log
Console(msg) ==
    [level |-> "PRINT", msg |-> msg, n |-> 0, toFile |-> FALSE,
     toConsole |-> TRUE]

(***************************************************************************)
(* _load_offers                                                            *)
(***************************************************************************)
RECURSIVE LoadLoopStops(_, _, _, _, _)
\* LoadLoop with a bug: the scan ends at the first element that is no dict
LoadLoopStops(items, i, valid, log, dir) ==
    IF i > Len(items) THEN [offers |-> valid, log |-> log]
    ELSE IF IsDict(items[i])
         THEN LoadLoopStops(items, i + 1, Append(valid, items[i]), log, dir)
         ELSE [offers |-> valid,
               log |-> Append(log, Log(dir, "WARNING", "item_not_dict", i - 1))]

RECURSIVE LoadLoop(_, _, _, _, _)
\* for i, offer in enumerate(offers_data): keep the dicts, warn on the rest
LoadLoop(items, i, valid, log, dir) ==
    IF i > Len(items) THEN [offers |-> valid, log |-> log]
    ELSE IF IsDict(items[i])
         THEN LoadLoop(items, i + 1, Append(valid, items[i]), log, dir)
         ELSE LoadLoop(items, i + 1, valid,
                       Append(log, Log(dir, "WARNING", "item_not_dict", i - 1)),
                       dir)

\* OffersIsList with a bug: the type of data["offers"] is not checked
OffersIsListUnchecked(file) == TRUE

\* isinstance(offers_data, list)
OffersIsList(file) == file.offersT = "list"

LoadOffers(file, dir) ==
    CASE file.state = "missing" ->
            [offers |-> <<>>, log |-> <<Log(dir, "ERROR", "file_not_found", 0)>>]
      [] file.state = "garbage" ->
            [offers |-> <<>>, log |-> <<Log(dir, "ERROR", "json_decode", 0)>>]
      [] file.state = "unreadable" ->
            [offers |-> <<>>, log |-> <<Log(dir, "ERROR", "load_error", 0)>>]
      [] OTHER ->
            IF file.root # "dict" \/ ~file.hasOffers
            THEN [offers |-> <<>>,
                  log |-> <<Log(dir, "ERROR", "no_offers_key", 0)>>]
            ELSE IF ~OffersIsList(file)
            THEN [offers |-> <<>>,
                  log |-> <<Log(dir, "ERROR", "offers_not_list", 0)>>]
            ELSE LET r == LoadLoop(file.items, 1, <<>>, <<>>, dir)
                 IN  [offers |-> r.offers,
                      log |-> Append(r.log,
                                     Log(dir, "INFO", "loaded", Len(r.offers)))]

(***************************************************************************)
(* _ensure_usage_log_exists                                                *)
(***************************************************************************)
\* EnsureUsageLogExists with a bug: the file is opened with "w" without the
\* test that it does not exist yet
EnsureUsageLogRewrites(dir, usage, ioOk) ==
    IF ~dir
    THEN [usage |-> usage, log |-> <<Console("usage_dir_missing")>>]
    ELSE IF ioOk
    THEN [usage |-> [exists |-> TRUE, lines |-> <<UsageHeader>>],
          log |-> <<Log(dir, "INFO", "usage_log_created", 0)>>]
    ELSE [usage |-> usage,
          log |-> <<Log(dir, "ERROR", "usage_log_create_error", 0)>>]

\* usage: [exists, lines], the usage log file; ioOk: whether open(.., "w")
\* and the write succeed
EnsureUsageLogExists(dir, usage, ioOk) ==
    IF ~dir
    THEN [usage |-> usage, log |-> <<Console("usage_dir_missing")>>]
    ELSE IF usage.exists
    THEN [usage |-> usage, log |-> <<>>]
    ELSE IF ioOk
    THEN [usage |-> [exists |-> TRUE, lines |-> <<UsageHeader>>],
          log |-> <<Log(dir, "INFO", "usage_log_created", 0)>>]
    ELSE [usage |-> usage,
          log |-> <<Log(dir, "ERROR", "usage_log_create_error", 0)>>]

(***************************************************************************)
(* Calls and results                                                       *)
(***************************************************************************)
Call(op, content, title, offer, position) ==
    [op |-> op, content |-> content, title |-> title, offer |-> offer,
     position |-> position]

\* what a call gave back: kind is "none" (None), "offer" (offer idx of the
\* catalog), "text", "cats" (a list of categories, as a set) or "raised"
\* (an exception left the call; exc is its type)
Ret(kind, idx, offer, text, cats, exc) ==
    [kind |-> kind, idx |-> idx, offer |-> offer, text |-> text,
     cats |-> cats, exc |-> exc]

RetNone == Ret("none", 0, NoneOffer, <<>>, {}, "")
RetOffer(i, o) == Ret("offer", i, o, <<>>, {}, "")
RetText(s) == Ret("text", 0, NoneOffer, s, {}, "")
RetCats(c) == Ret("cats", 0, NoneOffer, <<>>, c, "")
RetRaised(e) == Ret("raised", 0, NoneOffer, <<>>, {}, e)

(***************************************************************************)
(* get_all_categories                                                      *)
(***************************************************************************)
\* hash(v) succeeds: lists and dicts are unhashable
Hashable(v) == v.t \in {"str", "int", "bool", "NoneType"}

\* True == 1 and False == 0 as members of a set
HashKey(v) == IF v.t = "bool" THEN JInt(v.n) ELSE v

\* categories.update(x): x must be iterable and its elements hashable.
\* A text is iterated by character.  ok = FALSE stands for the TypeError.
SetUpdate(cats, x) ==
    CASE x.t = "list" ->
            IF \A k \in 1..Len(x.l) : Hashable(x.l[k])
            THEN [ok |-> TRUE,
                  cats |-> cats \cup {HashKey(x.l[k]) : k \in 1..Len(x.l)}]
            ELSE [ok |-> FALSE, cats |-> cats]
      [] x.t = "str" ->
            [ok |-> TRUE,
             cats |-> cats \cup {JStr(<<x.s[k]>>) : k \in 1..Len(x.s)}]
      [] OTHER -> [ok |-> FALSE, cats |-> cats]

RECURSIVE CategoriesLoop(_, _, _)
\* for offer in self.offers: categories.update(offer.get("categories", []))
CategoriesLoop(offs, i, cats) ==
    IF i > Len(offs) THEN RetCats(cats)
    ELSE IF ~IsDict(offs[i]) THEN CategoriesLoop(offs, i + 1, cats)
    ELSE LET u == SetUpdate(cats, Get(offs[i].categories, JList(<<>>)))
         IN  IF u.ok THEN CategoriesLoop(offs, i + 1, u.cats)
             ELSE RetRaised("TypeError")

GetAllCategoriesResult(offs) ==
    IF offs = <<>> THEN RetCats({}) ELSE CategoriesLoop(offs, 1, {})

GetAllCategories ==
    /\ pc = "ready"
    /\ call' = Call("get_all_categories", <<>>, <<>>, NoneOffer, "")
    /\ ret' = GetAllCategoriesResult(offers)
    /\ emitted' = <<>>
    /\ pc' = "called"
    /\ UNCHANGED <<offersFile, logDir, offers, usageLog>>
    /\ UNCHANGED clientVars

(***************************************************************************)
(* _score_offer                                                            *)
(***************************************************************************)
WKeywordBody == 2
WKeywordTitle == 5
WCategoryBody == 1
WCategoryTitle == 3
DefaultPriority == 1

RECURSIVE HitLoopNoLower(_, _, _, _, _)
\* HitLoop with a bug: the keyword or category is not lower-cased
HitLoopNoLower(xs, i, text, w, score) ==
    IF i > Len(xs) THEN score
    ELSE HitLoopNoLower(xs, i + 1, text, w,
                        IF IsStr(xs[i]) /\ Contains(text, xs[i].s)
                        THEN score + w ELSE score)

RECURSIVE HitLoop(_, _, _, _, _)
\* for x in xs: if isinstance(x, str) and x.lower() in text: score += w
HitLoop(xs, i, text, w, score) ==
    IF i > Len(xs) THEN score
    ELSE HitLoop(xs, i + 1, text, w,
                 IF IsStr(xs[i]) /\ Contains(text, Lower(xs[i].s))
                 THEN score + w ELSE score)

\* a keywords or categories value that is not a list counts as []
AsList(v) == IF IsList(v) THEN v.l ELSE <<>>

\* score += priority when priority is an int (or bool) value
PriorityScore(priority) == IF IsNumber(priority) THEN priority.n ELSE 0

ScoreOffer(offer, content, title) ==
    IF ~IsDict(offer) THEN 0
    ELSE LET keywords == AsList(Get(offer.keywords, JList(<<>>)))
             categories == AsList(Get(offer.categories, JList(<<>>)))
             priority == Get(offer.priority, JInt(DefaultPriority))
             content_lower == Lower(content)
             title_lower == Lower(title)
             s1 == HitLoop(keywords, 1, content_lower, WKeywordBody, 0)
             s2 == HitLoop(keywords, 1, title_lower, WKeywordTitle, s1)
             s3 == HitLoop(categories, 1, content_lower, WCategoryBody, s2)
             s4 == HitLoop(categories, 1, title_lower, WCategoryTitle, s3)
         IN  s4 + PriorityScore(priority)

(***************************************************************************)
(* match_content_to_offer                                                  *)
(***************************************************************************)
InitialHighest == 0 - 1

\* if score > highest_score
Better(score, highest) == score > highest

\* TieBreak with a bug: an equal priority replaces the best offer too
TieBreakOnEqual(score, highest, current_priority, best_priority) ==
    /\ score = highest
    /\ IsNumber(current_priority)
    /\ IsNumber(best_priority)
    /\ current_priority.n >= best_priority.n

\* TieBreak with a bug: the scores are not compared
TieBreakAnyScore(score, highest, current_priority, best_priority) ==
    /\ IsNumber(current_priority)
    /\ IsNumber(best_priority)
    /\ current_priority.n > best_priority.n

\* elif score == highest_score and both priorities are numbers and
\* current_priority > best_priority
TieBreak(score, highest, current_priority, best_priority) ==
    /\ score = highest
    /\ IsNumber(current_priority)
    /\ IsNumber(best_priority)
    /\ current_priority.n > best_priority.n

RECURSIVE MatchLoop(_, _, _, _, _, _)
\* the scan of self.offers; best is the position of best_offer in the
\* catalog, 0 while best_offer is None
MatchLoop(offs, i, best, highest, content, title) ==
    IF i > Len(offs) THEN [best |-> best, highest |-> highest]
    ELSE IF ~IsDict(offs[i])
    THEN MatchLoop(offs, i + 1, best, highest, content, title)
    ELSE LET score == ScoreOffer(offs[i], content, title)
             current_priority == Get(offs[i].priority, JInt(DefaultPriority))
             best_priority ==
                 IF best # 0
                 THEN Get(offs[best].priority, JInt(DefaultPriority))
                 ELSE JInt(DefaultPriority)
         IN  IF Better(score, highest)
             THEN MatchLoop(offs, i + 1, i, score, content, title)
             ELSE IF TieBreak(score, highest, current_priority, best_priority)
             THEN MatchLoop(offs, i + 1, i, highest, content, title)
             ELSE MatchLoop(offs, i + 1, best, highest, content, title)

\* if isinstance(best_offer, dict) and highest_score > 0
Relevant(best, highest) == best # 0 /\ highest > 0

\* FallbackChoices with a bug: there is no fallback
FallbackNone(offs) == {}

\* FallbackChoices with a bug: the fallback is the first offer, not a
\* random one
FallbackFirst(offs) == {i \in 1..Len(offs) : IsDict(offs[i]) /\ i = 1}

\* valid_offers_for_fallback: the positions random.choice can return
FallbackChoices(offs) == {i \in 1..Len(offs) : IsDict(offs[i])}

\* what match_content_to_offer can return: positions of the catalog, 0 for
\* None, with the lines it logs
MatchOutcomes(offs, content, title, dir) ==
    IF offs = <<>>
    THEN {[idx |-> 0, log |-> <<Log(dir, "WARNING", "no_offers_loaded", 0)>>]}
    ELSE LET r == MatchLoop(offs, 1, 0, InitialHighest, content, title)
         IN  IF Relevant(r.best, r.highest)
             THEN {[idx |-> r.best,
                    log |-> <<Log(dir, "INFO", "matched", r.highest)>>]}
             ELSE IF FallbackChoices(offs) = {}
             THEN {[idx |-> 0,
                    log |-> <<Log(dir, "ERROR", "no_valid_fallback", 0)>>]}
             ELSE {[idx |-> i,
                    log |-> <<Log(dir, "WARNING", "fallback_random", 0)>>] :
                        i \in FallbackChoices(offs)}

\* the (content, title) pairs the model calls match_content_to_offer with
MatchInputs ==
    {<<<<>>, <<>>>>, <<sAB, <<>>>>, <<sAB, sUpperA>>, <<exBody, exTitle>>}

\* MatchContentToOffer with a bug: the scan sorts self.offers in place
\* (here: leaves it in reverse order)
MatchContentToOfferReorders ==
    /\ pc = "ready"
    /\ \E inp \in MatchInputs :
          \E o \in MatchOutcomes(offers, inp[1], inp[2], logDir) :
              /\ call' = Call("match_content_to_offer", inp[1], inp[2],
                              NoneOffer, "")
              /\ ret' = IF o.idx = 0 THEN RetNone
                        ELSE RetOffer(o.idx, offers[o.idx])
              /\ emitted' = o.log
    /\ pc' = "called"
    /\ offers' = [i \in 1..Len(offers) |-> offers[Len(offers) + 1 - i]]
    /\ UNCHANGED <<offersFile, logDir, usageLog>>
    /\ UNCHANGED clientVars

MatchContentToOffer ==
    /\ pc = "ready"
    /\ \E inp \in MatchInputs :
          \E o \in MatchOutcomes(offers, inp[1], inp[2], logDir) :
              /\ call' = Call("match_content_to_offer", inp[1], inp[2],
                              NoneOffer, "")
              /\ ret' = IF o.idx = 0 THEN RetNone
                        ELSE RetOffer(o.idx, offers[o.idx])
              /\ emitted' = o.log
    /\ pc' = "called"
    /\ UNCHANGED <<offersFile, logDir, offers, usageLog>>
    /\ UNCHANGED clientVars

(***************************************************************************)
(* generate_cta_html                                                       *)
(***************************************************************************)
\* [t for t in cta_templates if isinstance(t, str)]
ValidTemplates(cta_templates) == SelectSeq(cta_templates.l, IsStr)

\* not cta_templates or not isinstance(cta_templates, list)
NoTemplates(cta_templates) == ~Truthy(cta_templates) \/ ~IsList(cta_templates)

\* offer.get("url", "#"), "#" again when it is not a text
OfferUrl(offer) ==
    LET u == Get(offer.url, JStr(sHash)) IN IF IsStr(u) THEN u.s ELSE sHash

\* Separator with a bug: the url is not searched for "?"
SeparatorAlwaysQuestion(offer_url) == <<"?">>

\* "&" if "?" in offer_url else "?"
Separator(offer_url) == IF Contains(offer_url, <<"?">>) THEN <<"&">> ELSE <<"?">>

TrackedUrl(offer) ==
    OfferUrl(offer) \o Separator(OfferUrl(offer)) \o UtmPrefix
        \o Format(Get(offer.id, JStr(sOfferDefault)))

\* template.replace("{{url}}", tracked_url)
\* template.replace("{{url}}", tracked_url, 1): only the first placeholder
RenderTemplateOnce(template, tracked_url) ==
    LET n == Len(UrlToken)
        at == {i \in 1..Len(template) :
                  /\ i + n - 1 <= Len(template)
                  /\ SubSeq(template, i, i + n - 1) = UrlToken}
    IN  IF at = {} THEN template
        ELSE LET i == CHOOSE j \in at : \A k \in at : j <= k
             IN  SubSeq(template, 1, i - 1) \o tracked_url
                     \o SubSeq(template, i + n, Len(template))

RenderTemplate(template, tracked_url) == Replace(template, UrlToken, tracked_url)

\* what generate_cta_html can return (random.choice picks the template),
\* with the lines it logs
GenerateOutcomes(offer, dir) ==
    IF ~IsDict(offer)
    THEN {[text |-> <<>>, log |-> <<Log(dir, "WARNING", "cta_not_dict", 0)>>]}
    ELSE IF NoTemplates(Get(offer.ctaTemplates, JNull))
    THEN {[text |-> <<>>, log |-> <<Log(dir, "WARNING", "no_templates", 0)>>]}
    ELSE LET valid == ValidTemplates(offer.ctaTemplates)
         IN  IF valid = <<>>
             THEN {[text |-> <<>>,
                    log |-> <<Log(dir, "WARNING", "no_text_templates", 0)>>]}
             ELSE {[text |-> RenderTemplate(valid[k].s, TrackedUrl(offer)),
                    log |-> <<>>] : k \in 1..Len(valid)}

\* the offers the model passes to a call: the first of the catalog (every
\* element of Pool is the first offer of some catalog), and one value that
\* is not a dict
OfferArgs == {offers[i] : i \in (1..Len(offers)) \cap {1}} \cup {NotAnOffer}

GenerateCtaHtml ==
    /\ pc = "ready"
    /\ \E offer \in OfferArgs :
          \E o \in GenerateOutcomes(offer, logDir) :
              /\ call' = Call("generate_cta_html", <<>>, <<>>, offer, "")
              /\ ret' = RetText(o.text)
              /\ emitted' = o.log
    /\ pc' = "called"
    /\ UNCHANGED <<offersFile, logDir, offers, usageLog>>
    /\ UNCHANGED clientVars

(***************************************************************************)
(* inject_cta_into_content                                                 *)
(***************************************************************************)
\* what \s matches
Whitespace == {" ", "\t", "\n", "\r", "\f"}

RECURSIVE SpaceRun(_)
\* the length of the longest prefix of s made of whitespace
SpaceRun(s) ==
    IF s # <<>> /\ s[1] \in Whitespace THEN 1 + SpaceRun(Drop(s, 1)) ELSE 0

CloseP == <<"<", "/", "p", ">">>

RECURSIVE SplitLoop(_, _, _)
\* re.split(r"(</p>\s*)", content, flags=re.IGNORECASE): the texts between
\* the closing tags and, between them, each closing tag with the whitespace
\* after it
SplitLoop(s, cur, acc) ==
    IF s = <<>> THEN Append(acc, cur)
    ELSE IF Len(s) >= Len(CloseP) /\ Lower(SubSeq(s, 1, Len(CloseP))) = CloseP
    THEN LET n == Len(CloseP) + SpaceRun(Drop(s, Len(CloseP)))
         IN  SplitLoop(Drop(s, n), <<>>, acc \o <<cur, SubSeq(s, 1, n)>>)
    ELSE SplitLoop(Drop(s, 1), Append(cur, s[1]), acc)

SplitParagraphs(content) == SplitLoop(content, <<>>, <<>>)

RECURSIVE Join(_)
\* "".join(parts)
Join(parts) == IF parts = <<>> THEN <<>> ELSE Head(parts) \o Join(Tail(parts))

\* f"<div class=\"wealthautomation-cta\">{cta_html}</div>"
WrapOpen ==
    <<"<", "d", "i", "v", " ", "c", "l", "a", "s", "s", "=", "\"", "w",
      "e", "a", "l", "t", "h", "a", "u", "t", "o", "m", "a", "t", "i", "o",
      "n", "-", "c", "t", "a", "\"", ">">>
WrapClose ==
    <<"<", "/", "d", "i", "v", ">">>

CtaWrapper(cta_html) == WrapOpen \o cta_html \o WrapClose

BlankLine == <<"\n", "\n">>

\* f"{content}\n\n{cta_wrapper}"
AtEnd(content, cta_wrapper) == content \o BlankLine \o cta_wrapper

\* AtStart with a bug: the CTA is put after the content
AtStartAppends(content, cta_wrapper) == content \o BlankLine \o cta_wrapper

\* f"{cta_wrapper}\n\n{content}"
AtStart(content, cta_wrapper) == cta_wrapper \o BlankLine \o content

MinParts == 3

\* MiddleIndex with a bug: no step back from an even index
MiddleIndexNoStepBack(n) == n \div 2

\* middle_index = len(paragraphs) // 2, one less when that is even
MiddleIndex(n) == IF (n \div 2) % 2 = 0 THEN (n \div 2) - 1 ELSE n \div 2

\* paragraphs.insert(middle_index + 1, cta_wrapper); "".join(paragraphs)
AtMiddle(paragraphs, cta_wrapper) ==
    LET m == MiddleIndex(Len(paragraphs))
    IN  Join(SubSeq(paragraphs, 1, m + 1) \o <<cta_wrapper>>
             \o SubSeq(paragraphs, m + 2, Len(paragraphs)))

\* Place with a bug: 'middle' splits whatever the number of paragraphs
PlaceAlwaysSplits(content, cta_html, position, dir) ==
    LET cta_wrapper == CtaWrapper(cta_html)
        paragraphs == SplitParagraphs(content)
    IN  CASE position = "end" ->
                [text |-> AtEnd(content, cta_wrapper), log |-> <<>>]
          [] position = "middle" ->
                [text |-> AtMiddle(paragraphs, cta_wrapper), log |-> <<>>]
          [] position = "start" ->
                [text |-> AtStart(content, cta_wrapper), log |-> <<>>]
          [] OTHER ->
                [text |-> AtEnd(content, cta_wrapper), log |-> <<>>]

\* the placement of a non-empty CTA, with the lines it logs
Place(content, cta_html, position, dir) ==
    LET cta_wrapper == CtaWrapper(cta_html)
        paragraphs == SplitParagraphs(content)
    IN  CASE position = "end" ->
                [text |-> AtEnd(content, cta_wrapper), log |-> <<>>]
          [] position = "middle" ->
                IF Len(paragraphs) > MinParts
                THEN [text |-> AtMiddle(paragraphs, cta_wrapper), log |-> <<>>]
                ELSE [text |-> AtEnd(content, cta_wrapper),
                      log |-> <<Log(dir, "WARNING", "middle_fallback", 0)>>]
          [] position = "start" ->
                [text |-> AtStart(content, cta_wrapper), log |-> <<>>]
          [] OTHER ->
                [text |-> AtEnd(content, cta_wrapper), log |-> <<>>]

\* InjectOutcomes with a bug: an empty CTA is placed like any other
InjectOutcomesNoCheck(content, offer, position, dir) ==
    IF ~IsDict(offer)
    THEN {[text |-> content,
           log |-> <<Log(dir, "WARNING", "inject_not_dict", 0)>>]}
    ELSE {LET pl == Place(content, g.text, position, dir)
          IN  [text |-> pl.text, log |-> g.log \o pl.log] :
             g \in GenerateOutcomes(offer, dir)}

\* what inject_cta_into_content can return, with the lines it logs
InjectOutcomes(content, offer, position, dir) ==
    IF ~IsDict(offer)
    THEN {[text |-> content,
           log |-> <<Log(dir, "WARNING", "inject_not_dict", 0)>>]}
    ELSE {IF g.text = <<>>
          THEN [text |-> content, log |-> g.log]
          ELSE LET pl == Place(content, g.text, position, dir)
               IN  [text |-> pl.text, log |-> g.log \o pl.log] :
             g \in GenerateOutcomes(offer, dir)}

\* contents the model injects into
sTwoParas ==
    <<"<", "p", ">", "a", "<", "/", "p", ">", "\n", "<", "P", ">", "b",
      "<", "/", "P", ">">>
sOnePara ==
    <<"<", "p", ">", "a", "<", "/", "p", ">">>

\* three, four and five paragraphs, with and without whitespace after the
\* closing tag and text after the last one
sThreeParas ==
    sA \o CloseP \o <<" ", "\n">> \o sB \o <<"<", "/", "P", ">">> \o sC
       \o CloseP
sFourParas ==
    sA \o CloseP \o sB \o CloseP \o <<"\n">> \o sC \o CloseP \o sX
       \o CloseP \o sA
sFiveParas ==
    sA \o CloseP \o sB \o CloseP \o sC \o CloseP \o <<" ">> \o sX
       \o CloseP \o sA \o CloseP

InjectContents ==
    {sAB, sOnePara, sTwoParas, sThreeParas, sFourParas, sFiveParas}

Positions == {"end", "middle", "start", "top"}

InjectCtaIntoContent ==
    /\ pc = "ready"
    /\ \E content \in InjectContents, offer \in OfferArgs, position \in Positions :
          \E o \in InjectOutcomes(content, offer, position, logDir) :
              /\ call' = Call("inject_cta_into_content", content, <<>>, offer,
                              position)
              /\ ret' = RetText(o.text)
              /\ emitted' = o.log
    /\ pc' = "called"
    /\ UNCHANGED <<offersFile, logDir, offers, usageLog>>
    /\ UNCHANGED clientVars

(***************************************************************************)
(* log_offer_usage                                                         *)
(***************************************************************************)
Quote == <<"\"">>

\* f'"{text.replace(chr(34), chr(34) * 2)}"'
Quoted(text) == Quote \o Replace(text, Quote, Quote \o Quote) \o Quote

\* content_title.replace('"', '').replace(',', ';')
SafeTitle(content_title) ==
    Replace(Replace(content_title, Quote, <<>>), <<",">>, <<";">>)

\* the line log_offer_usage appends
UsageEntry(offer, content_title, content_type) ==
    sNow \o <<",">> \o Format(Get(offer.id, JStr(sNA))) \o <<",">>
        \o Quoted(Format(Get(offer.name, JStr(sNA)))) \o <<",">>
        \o content_type \o <<",">> \o Quoted(SafeTitle(content_title))
        \o <<"\n">>

\* ioOk: whether open(.., "a") and the write succeed
LogUsageOutcome(offer, content_title, content_type, dir, usage, ioOk) ==
    IF ~IsDict(offer)
    THEN [usage |-> usage, log |-> <<Log(dir, "WARNING", "usage_not_dict", 0)>>]
    ELSE IF ~dir
    THEN [usage |-> usage, log |-> <<Console("usage_log_skipped")>>]
    ELSE IF ioOk
    THEN [usage |-> [exists |-> TRUE,
                     lines |-> Append(usage.lines,
                                      UsageEntry(offer, content_title,
                                                 content_type))],
          log |-> <<Log(dir, "INFO", "usage_logged", 0)>>]
    ELSE [usage |-> usage, log |-> <<Log(dir, "ERROR", "usage_log_error", 0)>>]

LogOfferUsage ==
    /\ pc = "ready"
    /\ Len(usageLog.lines) <= MaxUsage
    /\ \E offer \in OfferArgs, ioOk \in BOOLEAN :
          LET o == LogUsageOutcome(offer, sTitleCsv, sBlog, logDir, usageLog,
                                   ioOk)
          IN  /\ usageLog' = o.usage
              /\ emitted' = o.log
              /\ call' = Call("log_offer_usage", <<>>, sTitleCsv, offer, "")
    /\ ret' = RetNone
    /\ pc' = "called"
    /\ UNCHANGED <<offersFile, logDir, offers>>
    /\ UNCHANGED clientVars

(***************************************************************************)
(* __init__                                                                *)
(***************************************************************************)
\* InitLibrary with a bug: the loaded offers are added to the offers of the
\* library object made before
InitLibraryAccumulates ==
    /\ pc \in {"new", "ready"}
    /\ \E ioOk \in BOOLEAN :
          LET ld == LoadOffers(offersFile, logDir)
              en == EnsureUsageLogExists(logDir, usageLog, ioOk)
          IN  /\ offers' = offers \o ld.offers
              /\ usageLog' = en.usage
              /\ emitted' = ld.log \o en.log \o
                    <<IF logDir THEN Log(logDir, "INFO", "initialized", 0)
                                ELSE Console("init_log_skipped")>>
    /\ pc' = "called"
    /\ call' = Call("init", <<>>, <<>>, NoneOffer, "")
    /\ ret' = RetNone
    /\ UNCHANGED <<offersFile, logDir>>
    /\ UNCHANGED clientVars

\* AffiliateOfferLibrary(offers_file): the first library object, or a later
\* one made over the same files
InitLibrary ==
    /\ pc \in {"new", "ready"}
    /\ \E ioOk \in BOOLEAN :
          LET ld == LoadOffers(offersFile, logDir)
              en == EnsureUsageLogExists(logDir, usageLog, ioOk)
          IN  /\ offers' = ld.offers
              /\ usageLog' = en.usage
              /\ emitted' = ld.log \o en.log \o
                    <<IF logDir THEN Log(logDir, "INFO", "initialized", 0)
                                ELSE Console("init_log_skipped")>>
    /\ pc' = "called"
    /\ call' = Call("init", <<>>, <<>>, NoneOffer, "")
    /\ ret' = RetNone
    /\ UNCHANGED <<offersFile, logDir>>
    /\ UNCHANGED clientVars

(***************************************************************************)
(* The caller                                                              *)
(***************************************************************************)
NoCall == Call("none", <<>>, <<>>, NoneOffer, "")

\* the caller is done with what the call gave back and goes on to its next
\* call
NextCall ==
    /\ pc = "called"
    /\ pc' = "ready"
    /\ call' = NoCall
    /\ ret' = RetNone
    /\ emitted' = <<>>
    /\ UNCHANGED <<offersFile, logDir, offers, usageLog>>
    /\ UNCHANGED clientVars

(***************************************************************************)
(* The WordPress client (jwt_wordpress_integration.py)                     *)
(***************************************************************************)
\* a token value: the value under "token" in the token response, or the
\* jwt_token attribute.  isNone: Python None (JSON null); text: the token
Token(isNone, text) == [isNone |-> isNone, text |-> text]
NoToken == Token(TRUE, "")

\* the values the token endpoint answers with
TokenValues == {Token(FALSE, "t1"), Token(FALSE, "t2"), Token(FALSE, ""), NoToken}

\* a held token counts for nothing: every call asks for a new one
TokenNeverReused(token) == FALSE

\* if self.jwt_token: neither None nor the empty text
TokenTruthy(token) == ~token.isNone /\ token.text # ""

\* the body of a JSON response: t is the Python type json() returns; for a
\* dict, hasToken / token: the "token" key, id / link: the "id" and "link"
\* keys (0 and FALSE: absent or falsy), blast: the type of the value under
\* "email_blast" ("missing" when the key is absent)
Body(t, hasToken, token, id, link, blast) ==
    [t |-> t, hasToken |-> hasToken, token |-> token, id |-> id,
     link |-> link, blast |-> blast]
NoBody == Body("none", FALSE, NoToken, 0, FALSE, "missing")

\* what requests.post and raise_for_status give: "conn_error" (a
\* RequestException with no response), "http_error" (a 4xx/5xx status),
\* "undecodable" (a 2xx response whose body is not JSON), "json"
Response(kind, status, body) == [kind |-> kind, status |-> status, body |-> body]
NoResponse == Response("none", 0, NoBody)

TokenResponses ==
    {Response("conn_error", 0, NoBody), Response("http_error", 403, NoBody),
     Response("undecodable", 200, NoBody),
     Response("json", 200, Body("dict", FALSE, NoToken, 0, FALSE, "missing")),
     Response("json", 200, Body("list", FALSE, NoToken, 0, FALSE, "missing")),
     Response("json", 200, Body("NoneType", FALSE, NoToken, 0, FALSE, "missing"))}
    \cup {Response("json", 200, Body("dict", TRUE, v, 0, FALSE, "missing")) :
            v \in TokenValues}

PostResponses ==
    {Response("conn_error", 0, NoBody), Response("http_error", 401, NoBody),
     Response("http_error", 500, NoBody), Response("undecodable", 200, NoBody),
     Response("json", 201, Body("list", FALSE, NoToken, 0, FALSE, "missing"))}
    \cup {Response("json", 201, Body("dict", FALSE, NoToken, id, link, "missing")) :
            id \in {0, 7}, link \in BOOLEAN}

\* an Authorization header; scheme "none": no header (None)
Header(scheme, token) == [scheme |-> scheme, token |-> token]
NoHeader == Header("none", NoToken)

\* one HTTP exchange: the request (endpoint, Authorization header) and the
\* response to it
Exchange(to, header, response) == [to |-> to, header |-> header, response |-> response]

\* the object after __init__ read the environment
NewWordPress(e) ==
    [made |-> TRUE, wp_user |-> e.user, wp_app_password |-> e.app_password,
     jwt_secret |-> e.jwt_secret, jwt_token |-> NoToken,
     last_auth_method_used |-> "None"]
NoWordPress ==
    [made |-> FALSE, wp_user |-> FALSE, wp_app_password |-> FALSE,
     jwt_secret |-> FALSE, jwt_token |-> NoToken,
     last_auth_method_used |-> "None"]

\* _get_jwt_token: status is what it returns ("True", "False",
\* "JSON_DECODE_ERROR") or "raised"; w the object afterwards; net the
\* exchange made, if any
GetJwtToken(w, e, response) ==
    IF ~w.wp_user \/ ~w.jwt_secret \/ ~w.wp_app_password \/ ~e.api_url
    THEN [status |-> "False", w |-> w, net |-> <<>>, exc |-> ""]
    ELSE LET x == <<Exchange("token", NoHeader, response)>>
         IN  CASE response.kind \in {"conn_error", "http_error"} ->
                    [status |-> "False", w |-> w, net |-> x, exc |-> ""]
               [] response.kind = "undecodable" ->
                    [status |-> "JSON_DECODE_ERROR", w |-> w, net |-> x, exc |-> ""]
               [] OTHER ->
                    IF response.body.t \notin {"dict", "list"}
                    THEN [status |-> "raised", w |-> w, net |-> x,
                          exc |-> "TypeError"]
                    ELSE IF response.body.t = "dict" /\ response.body.hasToken
                    THEN [status |-> "True",
                          w |-> [w EXCEPT !.jwt_token = response.body.token],
                          net |-> x, exc |-> ""]
                    ELSE [status |-> "False", w |-> w, net |-> x, exc |-> ""]

\* _get_basic_auth_header
GetBasicAuthHeader(w) ==
    IF ~w.wp_user \/ ~w.wp_app_password THEN NoHeader
    ELSE Header("Basic", NoToken)

\* elif jwt_status == "JSON_DECODE_ERROR": the only status after which
\* Basic authentication is tried
FallsBackOn(status) == status = "JSON_DECODE_ERROR"

\* _get_auth_header: the header (NoHeader for None), the object afterwards,
\* the exchange made, and the exception raised, if any
GetAuthHeader(w, e, response) ==
    LET w0 == [w EXCEPT !.last_auth_method_used = "None"]
    IN  IF TokenTruthy(w0.jwt_token)
        THEN [header |-> Header("Bearer", w0.jwt_token),
              w |-> [w0 EXCEPT !.last_auth_method_used = "JWT"],
              net |-> <<>>, exc |-> ""]
        ELSE LET g == GetJwtToken(w0, e, response)
             IN  CASE g.status = "raised" ->
                        [header |-> NoHeader, w |-> g.w, net |-> g.net,
                         exc |-> g.exc]
                   [] g.status = "True" ->
                        [header |-> Header("Bearer", g.w.jwt_token),
                         w |-> [g.w EXCEPT !.last_auth_method_used = "JWT"],
                         net |-> g.net, exc |-> ""]
                   [] FallsBackOn(g.status) ->
                        LET b == GetBasicAuthHeader(g.w)
                        IN  [header |-> b,
                             w |-> IF b = NoHeader THEN g.w
                                   ELSE [g.w EXCEPT !.last_auth_method_used = "Basic"],
                             net |-> g.net, exc |-> ""]
                   [] OTHER ->
                        [header |-> NoHeader, w |-> g.w, net |-> g.net, exc |-> ""]

\* _save_fallback: the path returned (hasPath FALSE for None) and whether a
\* file was written; saveOk: whether mkdir, open and write succeed
SaveFallback(saveOk) == [hasPath |-> saveOk, wrote |-> saveOk]

\* the result of a client call.  kind: "returned" or "raised"; id: the post
\* or blast id (0 for None); url: whether a post URL is returned; fallback:
\* whether a fallback path is returned; method: the fourth value of
\* create_post; sent: the third value of create_and_send_email_blast;
\* saves: the calls of _save_fallback made; exc: the exception
Out(op, kind, id, url, fallback, method, sent, saves, exc) ==
    [op |-> op, kind |-> kind, id |-> id, url |-> url, fallback |-> fallback,
     method |-> method, sent |-> sent, saves |-> saves, exc |-> exc]
NoOut == Out("none", "returned", 0, FALSE, FALSE, "", FALSE, 0, "")
Raised(op, exc) == Out(op, "raised", 0, FALSE, FALSE, "", FALSE, 0, exc)

\* create_post failed: return None, None, self._save_fallback(..), method
PostFailed(method, saveOk) ==
    Out("create_post", "returned", 0, FALSE, SaveFallback(saveOk).hasPath,
        method, FALSE, 1, "")

\* create_post: the object afterwards, the exchanges made, the result, and
\* whether a fallback file was written
CreatePostOutcome(w, e, tokenResponse, postResponse, saveOk) ==
    LET a == GetAuthHeader(w, e, tokenResponse)
        auth_method == IF a.w.last_auth_method_used = "None" THEN "Unknown"
                       ELSE a.w.last_auth_method_used
        sent == Append(a.net, Exchange("posts", a.header, postResponse))
        failed == [w |-> a.w, net |-> sent,
                   out |-> PostFailed(auth_method, saveOk), wrote |-> saveOk]
    IN  IF a.exc # ""
        THEN [w |-> a.w, net |-> a.net, out |-> Raised("create_post", a.exc),
              wrote |-> FALSE]
        ELSE IF a.header = NoHeader
        THEN [w |-> a.w, net |-> a.net,
              out |-> PostFailed("Auth Failure", saveOk), wrote |-> saveOk]
        ELSE CASE postResponse.kind \in {"conn_error", "http_error",
                                         "undecodable"} -> failed
               [] postResponse.body.t # "dict" ->
                    [w |-> a.w, net |-> sent,
                     out |-> Raised("create_post", "AttributeError"),
                     wrote |-> FALSE]
               [] postResponse.body.id # 0 /\ postResponse.body.link ->
                    [w |-> a.w, net |-> sent,
                     out |-> Out("create_post", "returned",
                                 postResponse.body.id, TRUE, FALSE,
                                 auth_method, FALSE, 0, ""),
                     wrote |-> FALSE]
               [] OTHER -> failed

\* the answers the token endpoint can give to this call: none when the
\* call asks for no token
TokenAnswers(w, e) ==
    IF GetAuthHeader(w, e, NoResponse).net = <<>> THEN {NoResponse}
    ELSE TokenResponses

\* wp_integration = JWTWordPressIntegration(): the fields are read from the
\* environment and a first token is asked for; an exception leaves no object
InitWordPress ==
    /\ ~wp.made
    /\ \E tokenResponse \in TokenAnswers(NewWordPress(env), env) :
          LET g == GetJwtToken(NewWordPress(env), env, tokenResponse)
          IN  /\ wp' = IF g.status = "raised" THEN wp ELSE g.w
              /\ net' = g.net
              /\ out' = IF g.status = "raised" THEN Raised("wp_init", g.exc)
                        ELSE Out("wp_init", "returned", 0, FALSE, FALSE, "",
                                 FALSE, 0, "")
    /\ UNCHANGED <<env, ck, fallbackWrites>>
    /\ UNCHANGED libraryVars

CreatePost ==
    /\ wp.made
    /\ fallbackWrites.wp < MaxWrites
    /\ \E tokenResponse \in TokenAnswers(wp, env),
          postResponse \in PostResponses, saveOk \in BOOLEAN :
          LET o == CreatePostOutcome(wp, env, tokenResponse, postResponse, saveOk)
          IN  /\ wp' = o.w
              /\ net' = o.net
              /\ out' = o.out
              /\ fallbackWrites' =
                    IF o.wrote
                    THEN [fallbackWrites EXCEPT !.wp = fallbackWrites.wp + 1]
                    ELSE fallbackWrites
    /\ UNCHANGED <<env, ck>>
    /\ UNCHANGED libraryVars

(***************************************************************************)
(* The ConvertKit client (convertkit_v4_integration.py)                    *)
(***************************************************************************)
NewConvertKit(e) == [made |-> TRUE, api_secret |-> e.ck_secret]
NoConvertKit == [made |-> FALSE, api_secret |-> FALSE]

BlastResponses ==
    {Response("conn_error", 0, NoBody), Response("http_error", 401, NoBody),
     Response("undecodable", 200, NoBody),
     Response("json", 201, Body("list", FALSE, NoToken, 0, FALSE, "missing")),
     Response("json", 201, Body("dict", FALSE, NoToken, 0, FALSE, "missing")),
     Response("json", 201, Body("dict", FALSE, NoToken, 0, FALSE, "NoneType"))}
    \cup {Response("json", 201, Body("dict", FALSE, NoToken, id, FALSE, "dict")) :
            id \in {0, 9}}

\* _get_headers
GetHeaders(c) ==
    IF ~c.api_secret THEN NoHeader ELSE Header("Bearer", Token(FALSE, "secret"))

\* create_and_send_email_blast failed:
\* return None, self._save_fallback(subject, content), False
BlastFailed(saveOk) ==
    Out("create_and_send_email_blast", "returned", 0, FALSE,
        SaveFallback(saveOk).hasPath, "", FALSE, 1, "")

\* create_and_send_email_blast: the exchange made, the result, and whether
\* a fallback file was written.  An undecodable body makes response.json()
\* raise requests' JSONDecodeError, which is a RequestException.
BlastOutcome(c, response, saveOk) ==
    LET headers == GetHeaders(c)
        sent == <<Exchange("email_blasts", headers, response)>>
        failed == [net |-> sent, out |-> BlastFailed(saveOk), wrote |-> saveOk]
        raised == [net |-> sent,
                   out |-> Raised("create_and_send_email_blast",
                                  "AttributeError"),
                   wrote |-> FALSE]
    IN  IF headers = NoHeader
        THEN [net |-> <<>>, out |-> BlastFailed(saveOk), wrote |-> saveOk]
        ELSE CASE response.kind \in {"conn_error", "http_error",
                                     "undecodable"} -> failed
               [] response.body.t # "dict" -> raised
               [] response.body.blast = "missing" -> failed
               [] response.body.blast # "dict" -> raised
               [] response.body.id # 0 ->
                    [net |-> sent,
                     out |-> Out("create_and_send_email_blast", "returned",
                                 response.body.id, FALSE, FALSE, "", TRUE, 0,
                                 ""),
                     wrote |-> FALSE]
               [] OTHER -> failed

\* ck_integration = ConvertKitV4Integration()
InitConvertKit ==
    /\ ~ck.made
    /\ ck' = NewConvertKit(env)
    /\ net' = <<>>
    /\ out' = Out("ck_init", "returned", 0, FALSE, FALSE, "", FALSE, 0, "")
    /\ UNCHANGED <<env, wp, fallbackWrites>>
    /\ UNCHANGED libraryVars

CreateAndSendEmailBlast ==
    /\ ck.made
    /\ fallbackWrites.ck < MaxWrites
    /\ \E response \in BlastResponses, saveOk \in BOOLEAN :
          LET o == BlastOutcome(ck, response, saveOk)
          IN  /\ net' = o.net
              /\ out' = o.out
              /\ fallbackWrites' =
                    IF o.wrote
                    THEN [fallbackWrites EXCEPT !.ck = fallbackWrites.ck + 1]
                    ELSE fallbackWrites
    /\ UNCHANGED <<env, wp, ck>>
    /\ UNCHANGED libraryVars

\* the environment variables: whether each is set to a non-empty value
Environments ==
    [user : BOOLEAN, app_password : BOOLEAN, jwt_secret : BOOLEAN,
     api_url : BOOLEAN, ck_secret : BOOLEAN]

\* no variable is set
NoEnvironment ==
    [user |-> FALSE, app_password |-> FALSE, jwt_secret |-> FALSE,
     api_url |-> FALSE, ck_secret |-> FALSE]

\* no client object is made
NoClients ==
    /\ wp = NoWordPress
    /\ ck = NoConvertKit
    /\ net = <<>>
    /\ out = NoOut
    /\ fallbackWrites = [wp |-> 0, ck |-> 0]

(***************************************************************************)
(* Specification                                                           *)
(***************************************************************************)
Init ==
    /\ offersFile \in BadFiles \cup GoodFiles
    /\ logDir \in BOOLEAN
    /\ usageLog \in
          {[exists |-> FALSE, lines |-> <<>>]} \cup
          (IF logDir THEN {[exists |-> TRUE, lines |-> <<UsageHeader>>]} ELSE {})
    /\ pc = "new"
    /\ offers = <<>>
    /\ call = NoCall
    /\ ret = RetNone
    /\ emitted = <<>>
    /\ env = NoEnvironment
    /\ NoClients

Next ==
    \/ InitLibrary
    \/ GetAllCategories
    \/ MatchContentToOffer
    \/ GenerateCtaHtml
    \/ InjectCtaIntoContent
    \/ LogOfferUsage
    \/ NextCall

Spec == Init /\ [][Next]_vars

\* the library over catalogs of offers whose scores tie
InitSelect ==
    /\ offersFile \in TieFiles
    /\ logDir = TRUE
    /\ usageLog = [exists |-> TRUE, lines |-> <<UsageHeader>>]
    /\ pc = "new"
    /\ offers = <<>>
    /\ call = NoCall
    /\ ret = RetNone
    /\ emitted = <<>>
    /\ env = NoEnvironment
    /\ NoClients

SpecSelect == InitSelect /\ [][Next]_vars

\* the library over catalogs of offers with unusual templates and urls
InitRender ==
    /\ offersFile \in RenderFiles
    /\ logDir \in BOOLEAN
    /\ usageLog = [exists |-> FALSE, lines |-> <<>>]
    /\ pc = "new"
    /\ offers = <<>>
    /\ call = NoCall
    /\ ret = RetNone
    /\ emitted = <<>>
    /\ env = NoEnvironment
    /\ NoClients

SpecRender == InitRender /\ [][Next]_vars

\* the two clients, with no offer library made
InitClients ==
    /\ offersFile = File("missing", "NoneType", FALSE, "missing", <<>>)
    /\ logDir = FALSE
    /\ usageLog = [exists |-> FALSE, lines |-> <<>>]
    /\ pc = "new"
    /\ offers = <<>>
    /\ call = NoCall
    /\ ret = RetNone
    /\ emitted = <<>>
    /\ env \in Environments
    /\ NoClients

NextClients ==
    \/ InitWordPress
    \/ CreatePost
    \/ InitConvertKit
    \/ CreateAndSendEmailBlast

SpecClients == InitClients /\ [][NextClients]_vars


(***************************************************************************)
(* C1..C10: the claims                                                     *)
(***************************************************************************)
\* the catalog file is an object whose "offers" value is a list
WellFormed(file) ==
    file.state = "json" /\ file.root = "dict" /\ file.hasOffers
        /\ file.offersT = "list"

\* C1: for a catalog file whose root is an object with an "offers" list,
\* loading does not raise and the catalog is exactly the records (dicts) of
\* that list in their original order: none dropped, no non-record kept, and
\* the elements after a bad one are still validated.
C1_LoadKeepsRecords ==
    (pc # "new" /\ WellFormed(offersFile)) =>
        /\ offers = SelectSeq(offersFile.items, IsDict)
        /\ call.op = "init" => ret.kind # "raised"

\* a load of a list in which a record comes after a non-record
C1_Witness ==
    /\ call.op = "init"
    /\ WellFormed(offersFile)
    /\ Len(offersFile.items) = 2
    /\ ~IsDict(offersFile.items[1])
    /\ IsDict(offersFile.items[2])
    /\ offers = <<offersFile.items[2]>>

\* the entries of a keywords or categories value that are texts found in
\* the lower-cased text
Hits(v, text) ==
    IF v.t = "list"
    THEN Cardinality({k \in 1..Len(v.l) :
                        v.l[k].t = "str" /\ Contains(Lower(text), Lower(v.l[k].s))})
    ELSE 0

\* the score the claim states
ClaimedScore(offer, body, title) ==
    IF offer.t # "dict" THEN 0
    ELSE 2 * Hits(offer.keywords, body) + 5 * Hits(offer.keywords, title)
         + 1 * Hits(offer.categories, body) + 3 * Hits(offer.categories, title)
         + (CASE offer.priority.t = "missing" -> 1
              [] offer.priority.t \in {"int", "bool"} -> offer.priority.n
              [] OTHER -> 0)

\* C2: _score_offer gives 2 x keyword hits in the body + 5 x keyword hits in
\* the title + 1 x category hits in the body + 3 x category hits in the
\* title + priority; entries that are not texts count for nothing, a missing
\* priority counts as 1, a priority that is not a number as 0, a non-record
\* scores 0; the example offer scores 10.  The score a match reports is that
\* score.
C2_ScoreFormula ==
    /\ (call.op = "init") =>
          (\A i \in 1..Len(offers), inp \in MatchInputs :
              ScoreOffer(offers[i], inp[1], inp[2])
                  = ClaimedScore(offers[i], inp[1], inp[2]))
    /\ (call.op = "match_content_to_offer" /\ ret.kind = "offer"
            /\ emitted[1].msg = "matched") =>
          emitted[1].n = ClaimedScore(ret.offer, call.content, call.title)
    /\ (call.op = "match_content_to_offer" /\ ret.kind = "offer"
            /\ ret.offer = OfferEx /\ call.content = exBody
            /\ call.title = exTitle) =>
          emitted[1] = Log(logDir, "INFO", "matched", 10)
    /\ \A inp \in MatchInputs : ScoreOffer(NotAnOffer, inp[1], inp[2]) = 0

\* the example offer matched on the example content, with score 10
C2_Witness ==
    /\ call.op = "match_content_to_offer"
    /\ call.content = exBody
    /\ call.title = exTitle
    /\ ret.kind = "offer"
    /\ ret.offer = OfferEx
    /\ emitted[1].n = 10

\* the scores of the catalog for the content and title of the call
ScoreAt(i) == ClaimedScore(offers[i], call.content, call.title)

MaxScore ==
    CHOOSE m \in {ScoreAt(i) : i \in 1..Len(offers)} :
        \A i \in 1..Len(offers) : ScoreAt(i) <= m

SomeRelevant == \E i \in 1..Len(offers) : ScoreAt(i) > 0

\* C3: when some offer scores above 0, match_content_to_offer returns an
\* offer of the catalog whose score is the maximum over the catalog, and does
\* not take the random fallback.
C3_ReturnsMaxScore ==
    (call.op = "match_content_to_offer" /\ SomeRelevant) =>
        /\ ret.kind = "offer"
        /\ ret.idx \in 1..Len(offers)
        /\ ret.offer = offers[ret.idx]
        /\ ScoreAt(ret.idx) = MaxScore
        /\ emitted = <<Log(logDir, "INFO", "matched", MaxScore)>>

\* a match in which a later offer outscores the first
C3_Witness ==
    /\ call.op = "match_content_to_offer"
    /\ Len(offers) = 3
    /\ ScoreAt(1) > 0
    /\ ScoreAt(2) > ScoreAt(1)
    /\ ScoreAt(3) < ScoreAt(2)
    /\ ret.idx = 2


\* the offers of the catalog that tie at the maximum score
Tied == {i \in 1..Len(offers) : ScoreAt(i) = MaxScore}

\* the priority of an offer, a missing one counting as 1
PriorityAt(i) ==
    IF offers[i].priority.t = "missing" THEN JInt(1) ELSE offers[i].priority

NumericAt(i) == PriorityAt(i).t \in {"int", "bool"}

\* offer r is chosen over the tied offer j: by its higher numeric priority
\* or, the priorities being equal or not both numeric, by coming first
ChosenOver(r, j) ==
    IF NumericAt(r) /\ NumericAt(j) /\ PriorityAt(r).n # PriorityAt(j).n
    THEN PriorityAt(r).n > PriorityAt(j).n
    ELSE r < j

SeveralTied ==
    /\ call.op = "match_content_to_offer"
    /\ SomeRelevant
    /\ Cardinality(Tied) >= 2

\* C4 as stated: among any number of offers tied at the maximum score (> 0)
\* the one returned has the higher numeric priority than each other tied
\* offer, or, where the two priorities are equal or not numeric, comes
\* before it in the catalog.
C4_AsStated ==
    SeveralTied =>
        /\ ret.idx \in Tied
        /\ \A j \in Tied \ {ret.idx} : ChosenOver(ret.idx, j)

FirstOf(S) == CHOOSE i \in S : \A j \in S : i <= j

\* the tied offers with a numeric priority, and those of them with the
\* highest one
TiedNumeric == {i \in Tied : NumericAt(i)}

TiedTop ==
    {i \in TiedNumeric : \A j \in TiedNumeric : PriorityAt(i).n >= PriorityAt(j).n}

\* C4, amended: among the offers tied at the maximum score (> 0) the one
\* returned is the first tied offer when its priority is not numeric, and
\* otherwise the first of the tied offers with the highest numeric priority
\* (a missing priority counting as 1); a tied offer with a non-numeric
\* priority that is not the first tied offer is never returned.  With two
\* tied offers, or with priorities that are all numeric, that is the offer
\* the claim names.
C4_TieBreak ==
    SeveralTied =>
        /\ ret.idx \in Tied
        /\ ret.idx = IF NumericAt(FirstOf(Tied)) THEN FirstOf(TiedTop)
                     ELSE FirstOf(Tied)
        /\ (Cardinality(Tied) = 2 \/ TiedNumeric = Tied) =>
              \A j \in Tied \ {ret.idx} : ChosenOver(ret.idx, j)

\* three tied offers, the second with a text priority, of which the third
\* is returned for its higher numeric priority
C4_Witness ==
    /\ SeveralTied
    /\ Tied = {1, 2, 3}
    /\ NumericAt(1)
    /\ ~NumericAt(2)
    /\ NumericAt(3)
    /\ PriorityAt(3).n > PriorityAt(1).n
    /\ ret.idx = 3

\* C5: match_content_to_offer returns None exactly when the catalog is
\* empty; on a non-empty catalog, whatever the scores, it returns an offer
\* that is an element of the catalog.
C5_NoneIffEmpty ==
    (call.op = "match_content_to_offer") =>
        /\ (ret.kind = "none") <=> (offers = <<>>)
        /\ (offers # <<>>) =>
              /\ ret.kind = "offer"
              /\ ret.idx \in 1..Len(offers)
              /\ ret.offer = offers[ret.idx]

\* a match on a catalog whose offers all score below 0 returns one of them
C5_Witness ==
    /\ call.op = "match_content_to_offer"
    /\ offers # <<>>
    /\ \A i \in 1..Len(offers) : ScoreAt(i) < 0
    /\ ret.kind = "offer"
    /\ ret.offer = offers[ret.idx]

\* a call of match_content_to_offer with this content and title can return
\* the offer at position i through the random fallback
CanFallBackTo(inp, i) ==
    ENABLED (/\ MatchContentToOffer
             /\ call'.content = inp[1]
             /\ call'.title = inp[2]
             /\ ret'.kind = "offer"
             /\ ret'.idx = i
             /\ emitted'[1].msg = "fallback_random")

\* C6: when no offer of a non-empty catalog scores above 0, the result is
\* drawn from all offers of the catalog: each of them is a possible result
\* of the call, and the result is never anything outside the catalog.
C6_FallbackAnyOffer ==
    /\ (pc = "ready" /\ offers # <<>>) =>
          \A inp \in MatchInputs :
              (\A i \in 1..Len(offers) :
                  ClaimedScore(offers[i], inp[1], inp[2]) <= 0) =>
                  \A i \in 1..Len(offers) : CanFallBackTo(inp, i)
    /\ (call.op = "match_content_to_offer" /\ offers # <<>> /\ ~SomeRelevant) =>
          /\ ret.kind = "offer"
          /\ ret.idx \in 1..Len(offers)
          /\ ret.offer = offers[ret.idx]
          /\ emitted = <<Log(logDir, "WARNING", "fallback_random", 0)>>

\* the fallback returned the second offer, which scores less than the first
C6_Witness ==
    /\ call.op = "match_content_to_offer"
    /\ Len(offers) = 2
    /\ ~SomeRelevant
    /\ ScoreAt(2) < ScoreAt(1)
    /\ ret.idx = 2
    /\ emitted[1].msg = "fallback_random"

\* the offer has no usable CTA template: it is no record, or its
\* ctaTemplates is missing, no list, empty or without a text entry
NoUsableCta(offer) ==
    \/ offer.t # "dict"
    \/ offer.ctaTemplates.t # "list"
    \/ \A k \in 1..Len(offer.ctaTemplates.l) : offer.ctaTemplates.l[k].t # "str"

\* C7: for an offer with no usable CTA template, and for a non-record,
\* generate_cta_html returns the empty string without raising, and
\* inject_cta_into_content returns the content unchanged, for every position.
C7_NoTemplateNoChange ==
    /\ (call.op = "generate_cta_html" /\ NoUsableCta(call.offer)) =>
          ret = RetText(<<>>)
    /\ (call.op = "inject_cta_into_content" /\ NoUsableCta(call.offer)) =>
          ret = RetText(call.content)

\* a middle injection, into two paragraphs, of an offer whose templates hold
\* no text
C7_Witness ==
    /\ call.op = "inject_cta_into_content"
    /\ call.position = "middle"
    /\ call.content = sTwoParas
    /\ call.offer.t = "dict"
    /\ call.offer.ctaTemplates.t = "list"
    /\ Len(call.offer.ctaTemplates.l) > 0
    /\ NoUsableCta(call.offer)
    /\ ret.text = sTwoParas

\* C8 as stated: whatever the catalog file holds, no call of the library
\* lets an exception out.
C8_NeverRaises == ret.kind # "raised"

\* the catalog source is missing, unreadable, not JSON, not an object,
\* without "offers", or with "offers" that is no list
BadSource(file) ==
    \/ file.state # "json"
    \/ file.root # "dict"
    \/ ~file.hasOffers
    \/ file.offersT # "list"

\* the ERROR lines of the last call that report a load error
LoadErrors ==
    {k \in 1..Len(emitted) :
        emitted[k].level = "ERROR" /\ emitted[k].msg # "usage_log_create_error"}

\* C9: from a bad catalog source the load gives the empty catalog and reports
\* exactly one ERROR-level load error, without raising; every later call
\* then behaves as on an empty catalog.
C9_BadSourceEmptyCatalog ==
    (pc # "new" /\ BadSource(offersFile)) =>
        /\ offers = <<>>
        /\ ret.kind # "raised"
        /\ (call.op = "init") =>
              /\ Cardinality(LoadErrors) = 1
              /\ emitted[1].level = "ERROR"
              /\ emitted[1].toConsole
        /\ (call.op = "match_content_to_offer") => ret = RetNone
        /\ (call.op = "get_all_categories") => ret = RetCats({})

\* a load of a file whose "offers" value is a text
C9_Witness ==
    /\ call.op = "init"
    /\ offersFile.state = "json"
    /\ offersFile.hasOffers
    /\ offersFile.offersT = "str"
    /\ offers = <<>>
    /\ Cardinality(LoadErrors) = 1

\* the tracked URL of the spec's example
exTracked ==
    <<"h", "t", "t", "p", "s", ":", "/", "/", "x", ".", "c", "o", "m", "/",
      "?", "a", "=", "1", "&", "u", "t", "m", "_", "s", "o", "u", "r", "c",
      "e", "=", "w", "e", "a", "l", "t", "h", "a", "u", "t", "o", "m", "a",
      "t", "i", "o", "n", "&", "u", "t", "m", "_", "m", "e", "d", "i", "u",
      "m", "=", "b", "l", "o", "g", "&", "u", "t", "m", "_", "c", "a", "m",
      "p", "a", "i", "g", "n", "=", "o", "f", "f", "e", "r", "1">>

\* the tracked URL the claim states
ClaimedUrl(offer) ==
    LET url == IF offer.url.t = "str" THEN offer.url.s ELSE <<"#">>
        sep == IF \E k \in 1..Len(url) : url[k] = "?" THEN <<"&">> ELSE <<"?">>
        id == IF offer.id.t = "missing" THEN sOfferDefault ELSE Format(offer.id)
    IN  url \o sep \o UtmPrefix \o id

\* C10: the tracked URL is the offer's url ('#' when missing or no text),
\* then '&' when that url holds '?' and '?' otherwise, then the UTM
\* parameters and the offer id ('offer' when the offer has no id); it is what
\* generate_cta_html puts in place of the placeholder; the example gives
\* https://x.com/?a=1&utm_source=wealthautomation&utm_medium=blog&utm_campaign=offer1.
C10_TrackedUrl ==
    (call.op = "generate_cta_html" /\ IsDict(call.offer)) =>
        /\ TrackedUrl(call.offer) = ClaimedUrl(call.offer)
        /\ (ret.text # <<>>) =>
              \E k \in 1..Len(call.offer.ctaTemplates.l) :
                  /\ call.offer.ctaTemplates.l[k].t = "str"
                  /\ ret.text = Replace(call.offer.ctaTemplates.l[k].s, UrlToken,
                                        ClaimedUrl(call.offer))
        /\ (call.offer = OfferEx) =>
              /\ TrackedUrl(call.offer) = exTracked
              /\ Contains(ret.text, exTracked)

\* the CTA of the example offer, with the example's tracked URL in it
C10_Witness ==
    /\ call.op = "generate_cta_html"
    /\ call.offer = OfferEx
    /\ Contains(ret.text, exTracked)
    /\ ~Contains(ret.text, UrlToken)

(***************************************************************************)
(* C11..C20                                                                *)
(***************************************************************************)
RECURSIVE CountCloseP(_)
\* the number of paragraph-closing tags in s, in either case
CountCloseP(s) ==
    IF Len(s) < Len(CloseP) THEN 0
    ELSE IF Lower(SubSeq(s, 1, Len(CloseP))) = CloseP
    THEN 1 + CountCloseP(Drop(s, Len(CloseP)))
    ELSE CountCloseP(Drop(s, 1))

\* the non-empty CTAs generate_cta_html can render for the offer
RenderedCtas(offer) ==
    {g.text : g \in GenerateOutcomes(offer, logDir)} \ {<<>>}

\* the call is an injection of a non-empty CTA
InjectsCta ==
    /\ call.op = "inject_cta_into_content"
    /\ IsDict(call.offer)
    /\ RenderedCtas(call.offer) # {}

\* the CTA in its wrapper, as the text the source spells out
Wrapped(cta) == WrapOpen \o cta \o <<"<", "/", "d", "i", "v", ">">>

\* the example offer's second template, rendered: "<url> or <url>"
exCta == exTracked \o <<" ", "o", "r", " ">> \o exTracked

\* C11: position 'middle' on content with fewer than two paragraph-closing
\* tags returns what position 'end' returns for the same content and CTA:
\* the content, a blank line, then the wrapped CTA.
C11_MiddleFallsBackToEnd ==
    (InjectsCta /\ call.position = "middle" /\ CountCloseP(call.content) < 2) =>
        /\ \E cta \in RenderedCtas(call.offer) :
              ret.text = call.content \o <<"\n", "\n">> \o Wrapped(cta)
        /\ ret.text \in {o.text : o \in InjectOutcomes(call.content, call.offer,
                                                      "end", logDir)}
        /\ \E i \in 1..Len(emitted) :
              emitted[i].level = "WARNING" /\ emitted[i].msg = "middle_fallback"

C11_Witness ==
    /\ InjectsCta
    /\ call.position = "middle"
    /\ CountCloseP(call.content) = 1
    /\ ret.text = call.content \o <<"\n", "\n">> \o Wrapped(exCta)

\* C12: for a non-empty rendered CTA, 'end' returns content + blank line +
\* wrapped CTA, 'start' returns wrapped CTA + blank line + content, and any
\* position other than start, middle and end returns what 'end' returns;
\* the content is in the result unmodified and once.
C12_EndStartOther ==
    (InjectsCta /\ call.position # "middle") =>
        \E cta \in RenderedCtas(call.offer) :
            /\ ret.text =
                  IF call.position = "start"
                  THEN Wrapped(cta) \o <<"\n", "\n">> \o call.content
                  ELSE call.content \o <<"\n", "\n">> \o Wrapped(cta)
            /\ Len(ret.text) = Len(call.content) + 2 + Len(Wrapped(cta))
            /\ call.position \notin {"start", "end"} =>
                  ret.text \in {o.text : o \in InjectOutcomes(call.content,
                                          call.offer, "end", logDir)}

C12_Witness ==
    /\ InjectsCta
    /\ call.position = "start"
    /\ call.content = sTwoParas
    /\ ret.text = Wrapped(exCta) \o <<"\n", "\n">> \o sTwoParas

\* C13: the catalog is immutable after load: every call other than an
\* initialization, and the caller going on to its next call, leaves the
\* catalog with the same offers, field values and order.
C13_CatalogImmutable ==
    [][call'.op # "init" => offers' = offers]_vars

\* a match that returned an offer of a catalog of two, after a usage record
\* was written
C13_Witness ==
    /\ call.op = "match_content_to_offer"
    /\ ret.kind = "offer"
    /\ Len(offers) = 2
    /\ offers[1] # offers[2]
    /\ Len(usageLog.lines) >= 2

IsPrefix(a, b) == Len(a) <= Len(b) /\ SubSeq(b, 1, Len(a)) = a

\* the step is a log_offer_usage call for a record offer
LogsRecordOffer == call'.op = "log_offer_usage" /\ IsDict(call'.offer)

\* C14: the usage log is append-only and fire-and-forget: every step of
\* an initialization or of log_offer_usage keeps the existing log content
\* as a prefix and never removes the file; a log_offer_usage call for a
\* record offer appends exactly one record at the end, or, with the sink
\* directory missing or the write failing, leaves the log unchanged; it
\* returns without raising.
C14_AppendOnly ==
    [][/\ IsPrefix(usageLog.lines, usageLog'.lines)
       /\ usageLog.exists => usageLog'.exists
       /\ LogsRecordOffer =>
             /\ ret'.kind # "raised"
             /\ \/ /\ Len(usageLog'.lines) = Len(usageLog.lines) + 1
                   /\ usageLog'.lines[Len(usageLog'.lines)] # UsageHeader
                   /\ logDir
                \/ /\ usageLog' = usageLog
                   /\ \/ ~logDir
                      \/ \E i \in 1..Len(emitted') :
                            emitted'[i].msg = "usage_log_error"]_vars

\* a library made over a usage log that already holds a record
C14_Witness ==
    /\ call.op = "init"
    /\ usageLog.exists
    /\ \E i \in 1..Len(usageLog.lines) : usageLog.lines[i] # UsageHeader

\* C15 (as stated): a usage record has the five comma-separated fields
\* timestamp, offer id, quoted offer name, content type, quoted content
\* title; in the name every double quote is doubled; in the title every
\* comma is replaced by a semicolon and every double quote is doubled, so
\* that the title's quotes are in the record, doubled.
ClaimedTitleField(content_title) ==
    <<"\"">> \o Replace(Replace(content_title, <<",">>, <<";">>),
                        <<"\"">>, <<"\"", "\"">>) \o <<"\"">>

ClaimedNameField(offer) ==
    <<"\"">> \o Replace(Format(Get(offer.name, JStr(sNA))),
                        <<"\"">>, <<"\"", "\"">>) \o <<"\"">>

ClaimedRecord(offer, content_title, content_type) ==
    sNow \o <<",">> \o Format(Get(offer.id, JStr(sNA))) \o <<",">>
         \o ClaimedNameField(offer) \o <<",">> \o content_type \o <<",">>
         \o ClaimedTitleField(content_title) \o <<"\n">>

\* the call wrote a usage record
WroteRecord ==
    /\ call.op = "log_offer_usage"
    /\ IsDict(call.offer)
    /\ \E i \in 1..Len(emitted) : emitted[i].msg = "usage_logged"

C15_RecordFields ==
    WroteRecord =>
        usageLog.lines[Len(usageLog.lines)]
            = ClaimedRecord(call.offer, call.title, sBlog)

\* C16: loading is idempotent: a library made again over the same
\* well-formed catalog file holds a catalog equal in content and order to
\* the one held before, whatever calls were made in between.
C16_LoadIdempotent ==
    [][(pc = "ready" /\ call'.op = "init" /\ WellFormed(offersFile)) =>
          offers' = offers]_vars

\* a second load, after a usage record was written, of a catalog of two
\* different records
C16_Witness ==
    /\ call.op = "init"
    /\ WellFormed(offersFile)
    /\ Len(offers) = 2
    /\ offers[1] # offers[2]
    /\ \E i \in 1..Len(usageLog.lines) : usageLog.lines[i] # UsageHeader
    /\ \E i \in 1..Len(emitted) : emitted[i].msg = "loaded" /\ emitted[i].n = 2

\* s ends with a paragraph-closing tag followed only by whitespace
EndsWithCloseP(s) ==
    \E j \in 1..Len(s) :
        /\ j + Len(CloseP) - 1 <= Len(s)
        /\ Lower(SubSeq(s, j, j + Len(CloseP) - 1)) = CloseP
        /\ \A m \in (j + Len(CloseP))..Len(s) : s[m] \in Whitespace

\* ceil(k / 2)
HalfUp(k) == (k + 1) \div 2

\* the result is the content cut after its n-th closing tag and the
\* whitespace that follows it, with the wrapped CTA put into the cut
InsertedAfter(n, content, cta, text) ==
    \E p \in 1..Len(content) :
        LET before == SubSeq(content, 1, p)
            after == SubSeq(content, p + 1, Len(content))
        IN  /\ text = before \o Wrapped(cta) \o after
            /\ before \o after = content
            /\ EndsWithCloseP(before)
            /\ CountCloseP(before) = n
            /\ after = <<>> \/ after[1] \notin Whitespace

\* C20: for position 'middle' and content with k >= 2 paragraph-closing
\* tags, the wrapped CTA is inserted right after the ceil(k/2)-th closing
\* tag and its trailing whitespace, never inside a paragraph, and the text
\* before and after the CTA concatenates to the original content.
C20_MiddleAfterHalf ==
    (InjectsCta /\ call.position = "middle" /\ CountCloseP(call.content) >= 2) =>
        \E cta \in RenderedCtas(call.offer) :
            InsertedAfter(HalfUp(CountCloseP(call.content)), call.content,
                          cta, ret.text)

\* the CTA put after paragraph 2 of 4
C20_Witness ==
    /\ InjectsCta
    /\ call.position = "middle"
    /\ call.content = sFourParas
    /\ CountCloseP(call.content) = 4
    /\ InsertedAfter(2, call.content, exCta, ret.text)

\* the response carries a token
GaveToken(response) ==
    response.kind = "json" /\ response.body.t = "dict" /\ response.body.hasToken

\* the create_post call held no token and obtained none: its token request
\* failed, or it could not make one
NoTokenObtained ==
    /\ out.op = "create_post"
    /\ \A i \in 1..Len(net) :
          /\ net[i].to = "token" => ~GaveToken(net[i].response)
          /\ net[i].to = "posts" => net[i].header.scheme # "Bearer"

\* C17 (as stated): create_post falls back to Basic authentication:
\* whenever no JWT token can be obtained, for any reason, and the WordPress
\* user and application password are configured, the post request is still
\* sent, with the Basic Authorization header.
C17_BasicFallback ==
    (NoTokenObtained /\ wp.wp_user /\ wp.wp_app_password) =>
        \E i \in 1..Len(net) :
            net[i].to = "posts" /\ net[i].header.scheme = "Basic"

\* the CMS accepted the post request and returned both id and link
Accepted ==
    \E i \in 1..Len(net) :
        /\ net[i].to = "posts"
        /\ net[i].response.kind = "json"
        /\ net[i].response.body.t = "dict"
        /\ net[i].response.body.id # 0
        /\ net[i].response.body.link

\* C18 (as stated): every outcome of create_post is one of two shapes:
\* success, with a post id and URL and no fallback path, only when the CMS
\* accepted the request and returned both id and link; or failure, with no
\* id and no URL and exactly one attempt to save a fallback file.  It never
\* returns both an id and a fallback path and never fails without
\* attempting the fallback save.
C18_PostOutcomeShapes ==
    out.op = "create_post" =>
        /\ out.kind = "returned"
        /\ \/ /\ out.id # 0 /\ out.url
              /\ ~out.fallback /\ out.saves = 0
              /\ Accepted
           \/ /\ out.id = 0 /\ ~out.url
              /\ out.saves = 1
              /\ ~Accepted

\* C19 (as stated): in every outcome of create_and_send_email_blast, sent
\* is true exactly when a blast id is returned, and then there is no
\* fallback path and no fallback save; in every other outcome (API secret
\* missing, with no HTTP request made; request error; response without a
\* blast id) no id is returned, sent is false, and exactly one attempt is
\* made to save the fallback file.
C19_BlastOutcomeShapes ==
    out.op = "create_and_send_email_blast" =>
        /\ out.kind = "returned"
        /\ out.sent <=> out.id # 0
        /\ out.sent => ~out.fallback /\ out.saves = 0
        /\ ~out.sent => out.saves = 1
        /\ ~ck.api_secret => net = <<>>

(***************************************************************************)
(* Claims C21..C22                                                         *)
(***************************************************************************)
\* the text entries of the offer's ctaTemplates list
StringTemplates(offer) ==
    IF offer.ctaTemplates.t = "list"
    THEN {offer.ctaTemplates.l[k].s :
             k \in {j \in 1..Len(offer.ctaTemplates.l) :
                       offer.ctaTemplates.l[j].t = "str"}}
    ELSE {}

\* the places of a template where a placeholder begins (two placeholders
\* never overlap)
Occurrences(t) ==
    {i \in 1..Len(t) :
        /\ i + Len(UrlToken) - 1 <= Len(t)
        /\ SubSeq(t, i, i + Len(UrlToken) - 1) = UrlToken}

RECURSIVE ClaimedFrom(_, _, _)
\* the template from place i on, with the tracked URL at every placeholder
\* and every other character as it is
ClaimedFrom(t, url, i) ==
    IF i > Len(t) THEN <<>>
    ELSE IF i \in Occurrences(t)
         THEN url \o ClaimedFrom(t, url, i + Len(UrlToken))
         ELSE <<t[i]>> \o ClaimedFrom(t, url, i + 1)

ClaimedCta(t, url) == ClaimedFrom(t, url, 1)

\* generate_cta_html was called on an offer with a text among its templates
GeneratedFromText ==
    /\ call.op = "generate_cta_html"
    /\ IsDict(call.offer)
    /\ StringTemplates(call.offer) # {}

\* the result is one of the offer's text templates with the tracked URL at
\* every placeholder, returned without a warning
RendersATemplate ==
    GeneratedFromText =>
        /\ ret.kind = "text"
        /\ \E t \in StringTemplates(call.offer) :
               ret.text = ClaimedCta(t, ClaimedUrl(call.offer))
        /\ emitted = <<>>

\* every text template of an offer is a possible choice of the next call
CanChooseAny ==
    pc = "ready" =>
        \A offer \in OfferArgs :
            IsDict(offer) =>
                \A t \in StringTemplates(offer) :
                    ENABLED (/\ GenerateCtaHtml
                             /\ call'.offer = offer
                             /\ ret' = RetText(ClaimedCta(t, ClaimedUrl(offer))))

\* the tracked URL holds a placeholder, or begins with the end of one, or
\* ends with the beginning of one
CanForm(url) ==
    \/ Contains(url, UrlToken)
    \/ \E n \in 1..(Len(UrlToken) - 1) :
          /\ n <= Len(url)
          /\ \/ SubSeq(url, 1, n)
                    = SubSeq(UrlToken, Len(UrlToken) - n + 1, Len(UrlToken))
             \/ SubSeq(url, Len(url) - n + 1, Len(url)) = SubSeq(UrlToken, 1, n)

\* C21 as stated: with the last clause as the claim words it, a placeholder
\* is left in the result only when the tracked URL itself contains one.
C21_AsStated ==
    /\ RendersATemplate
    /\ CanChooseAny
    /\ GeneratedFromText =>
          (Contains(ret.text, UrlToken) =>
              Contains(ClaimedUrl(call.offer), UrlToken))

\* C21: for an offer with at least one text entry in its ctaTemplates list,
\* generate_cta_html returns one of the offer's text templates (never a
\* non-text entry, and each text entry is a possible choice) with the
\* tracked URL in place of every placeholder of the template and all other
\* text as it is; a placeholder is left in the result only when the tracked
\* URL contains one or forms one with the template text next to it, which
\* takes a tracked URL that begins with the end of the placeholder or ends
\* with the beginning of it.
C21_RendersTemplate ==
    /\ RendersATemplate
    /\ CanChooseAny
    /\ GeneratedFromText =>
          (Contains(ret.text, UrlToken) => CanForm(ClaimedUrl(call.offer)))

\* the template with two placeholders, chosen from a list that begins with
\* a number, came back with the tracked URL twice and no placeholder
C21_Witness ==
    /\ call.op = "generate_cta_html"
    /\ call.offer = OfferD
    /\ ret.text = ClaimedUrl(OfferD) \o <<" ", "o", "r", " ">> \o ClaimedUrl(OfferD)
    /\ ~Contains(ret.text, UrlToken)

\* the client holds a JWT token: one was stored and it is not the empty text
HoldsToken ==
    /\ wp.made
    /\ ~wp.jwt_token.isNone
    /\ wp.jwt_token.text # ""

\* C22: once the WordPress client holds a JWT token, no step clears or
\* replaces it, and every create_post from then on makes one request only,
\* the post request under "Bearer <that token>", with "JWT" recorded as the
\* auth method (and returned, when the call returns): no token request and
\* no Basic header, whatever the answers to earlier post requests were.
C22_TokenKept ==
    [][HoldsToken =>
          /\ wp'.made
          /\ wp'.jwt_token = wp.jwt_token
          /\ out'.op = "create_post" =>
                /\ Len(net') = 1
                /\ net'[1].to = "posts"
                /\ net'[1].header = Header("Bearer", wp.jwt_token)
                /\ wp'.last_auth_method_used = "JWT"
                /\ out'.kind = "returned" => out'.method = "JWT"]_vars

\* a post made with the held token was rejected with 401 and saved to a
\* fallback file, after an earlier fallback save: the token is still held and
\* no token request was made
C22_Witness ==
    /\ HoldsToken
    /\ out.op = "create_post"
    /\ out.method = "JWT"
    /\ out.fallback
    /\ fallbackWrites.wp = MaxWrites
    /\ net = <<Exchange("posts", Header("Bearer", wp.jwt_token),
                         Response("http_error", 401, NoBody))>>

====
